---- MODULE Spec2Model ----
(***************************************************************************)
(* Model of the panel-hover hit-test pipeline of QuestCam2AR:              *)
(*   CameraPanelSystem        (src/src/camera-panel-system.ts)             *)
(*   ControllerPanelTapSystem (src/src/controller-panel-tap-system.ts)     *)
(*   TapHitDebugSystem        (src/src/tap-hit-debug-system.ts)            *)
(* The three systems are registered in this order (index.ts) and the world *)
(* calls update(dt, time) of each once per XR frame without awaiting the   *)
(* promise TapHitDebugSystem.update returns.  An update that reaches an    *)
(* await on a promise the platform has not settled yet stays suspended     *)
(* across frames; its continuation runs between two frames.                *)
(* Time is counted in tenths of a second.                                  *)
(***************************************************************************)
EXTENDS Integers, Sequences, FiniteSets, TLC

\* ------------------------------------------------------------------ bounds
MaxSamples == 2      \* hover samples the projector writes in one run
MaxProbes == 2       \* requestHitTestSource calls in one run
MaxDt == 2           \* longest frame time, in tenths of a second
MaxElapsed == 5      \* frames stop once timeSinceTap has passed this value
MaxWaiters == 1      \* updates suspended on the XR spaces promise
MaxSessions == 2     \* immersive sessions entered in one run

\* ------------------------------------------------------- program constants
HIT_TIMEOUT == 4     \* 0.4 s, in tenths of a second
PANEL_W == 1280
PANEL_H == 1080

\* ---------------------------------------------------------------- values
\* a field that is `undefined`, and the number NaN
Undefined == 0 - 1
NaN == 0 - 2
\* what the panel canvas shows: a camera frame or nothing, with the hover
\* ring and the tap dot on top or not
BlankCanvas == [drawn |-> FALSE, hover |-> FALSE, tap |-> FALSE]
NoUv == [id |-> 0, u |-> 0, v |-> 0, probing |-> FALSE]
\* a ray: the sample it comes from with its panel uv, the image uv it was
\* built from (in thousandths) and the path that built it
NoRay ==
    [sample |-> 0, u |-> 0, v |-> 0, path |-> "none", probing |-> FALSE,
     imgU |-> 0, imgV |-> 0]
NoHandle == [id |-> 0, sample |-> 0]
NoMapping ==
    [srcW |-> 0, srcH |-> 0, panelW |-> 0, panelH |-> 0,
     renderW |-> Undefined, renderH |-> Undefined,
     offsetX |-> Undefined, offsetY |-> Undefined]
NoReticle ==
    [exists |-> FALSE, visible |-> FALSE, kind |-> "none", pose |-> 0, ray |-> NoRay]

\* hit.uv of the raycaster, in halves of the panel (UvScale = 1.0)
UvScale == 2
\* image uv, in thousandths (ImgScale = 1.0)
ImgScale == 1000
HitUvs == {<<1, 2>>}
\* sizes of the frames CameraUtils.captureFrame delivers
FrameSizes == {<<1920, 1080>>}
\* what frame.getHitTestResults returns: a list of hit poses, first one first
ResultLists == {<<>>, <<1>>, <<2, 1>>}
Dts == 1..MaxDt

\* ---------------------------------------------------- the calibration record
\* globals.cameraIntrinsics = null
NoIntrinsics ==
    [present |-> FALSE, width |-> 0, height |-> 0, fx |-> 0, fy |-> 0,
     cx |-> Undefined, cy |-> Undefined,
     lensRotation |-> FALSE, lensTranslation |-> FALSE]
\* what track.getSettings() reports: lensIntrinsicCalibration (<<>> when it
\* is missing), width, height, and whether lensRotation and lensTranslation
\* are there; `granted` is FALSE when getUserMedia rejects
TrackSettings ==
    { [granted |-> g, calib |-> c, width |-> w, height |-> 1080,
       rot |-> r, trans |-> t] :
        g \in BOOLEAN, c \in {<<>>, <<500, 500, 0, 540>>, <<0, 500, 640, 540>>},
        w \in {0, 1280}, r \in BOOLEAN, t \in BOOLEAN }
\* fetchCameraIntrinsics(): null unless the settings carry fx, fy, cx, cy and
\* a frame size; the lens pose is copied when the settings have it
fetchCameraIntrinsics(s) ==
    IF ~s.granted \/ Len(s.calib) < 4
    THEN NoIntrinsics
    ELSE IF s.width = 0 \/ s.height = 0 \/ s.calib[1] = 0 \/ s.calib[2] = 0
    THEN NoIntrinsics
    ELSE [present |-> TRUE, width |-> s.width, height |-> s.height,
          fx |-> s.calib[1], fy |-> s.calib[2],
          cx |-> s.calib[3], cy |-> s.calib[4],
          lensRotation |-> s.rot, lensTranslation |-> s.trans]
\* globals.cameraIntrinsics, fetched once before the world is created
Calibrations == { fetchCameraIntrinsics(s) : s \in TrackSettings }

VARIABLES
    phase,              \* position in the frame callback
    xrFrame,            \* this.xrFrame of the running frame is non-null
    last,               \* what the most recent step did: [tag, ray]
    session,            \* xrManager.getSession(): 0 is null
    hasHitTest,         \* session.requestHitTestSource is defined
    spacesPromise,      \* TapHitDebugSystem.spacesPromise
    spaceWaiters,       \* updates suspended at `await this.ensureSpaces()`
    panelMesh,          \* CameraPanelSystem.panelMesh is set
    cameraImageMapping, \* globals.cameraImageMapping
    cameraIntrinsics,   \* globals.cameraIntrinsics
    panelHoverUv,       \* globals.panelHoverUv
    pendingRayUv,       \* tapHitState.pendingRayUv
    lastTapUv,          \* tapHitState.lastTapUv
    prevPressed,        \* ControllerPanelTapSystem.prevPressed (right source)
    reticle,            \* TapHitDebugSystem.reticle
    activeHitSource,    \* TapHitDebugSystem.activeHitSource
    pendingRayRef,      \* TapHitDebugSystem.pendingRayRef
    timeSinceTap,       \* TapHitDebugSystem.timeSinceTap
    requests,           \* updates suspended at `await requestHitTestSource`
    nextHandle,         \* identity of the next XRHitTestSource
    nextSample,         \* identity of the next hover sample
    returned,           \* handles the platform has returned
    cancelled,          \* handles cancel() was called on
    consumed,           \* samples the orchestrator has cleared from pendingRayUv
    placedFor,          \* samples a marker placement was derived from
    trigger,            \* the designated controller's trigger in the last frame
    canvas,             \* what the panel's canvas shows
    ended,              \* immersive sessions that have ended
    spacesSession       \* the session whose spaces spacesPromise holds (0: none)

vars ==
    <<phase, xrFrame, last, session, hasHitTest, spacesPromise, spaceWaiters, panelMesh,
      cameraImageMapping, cameraIntrinsics, panelHoverUv, pendingRayUv,
      lastTapUv, prevPressed, reticle, activeHitSource, pendingRayRef,
      timeSinceTap, requests, nextHandle, nextSample, returned, cancelled,
      consumed, placedFor, trigger, canvas, ended, spacesSession>>

panelVars == <<panelMesh, cameraImageMapping, canvas>>
tapVars == <<panelHoverUv, lastTapUv, prevPressed, nextSample, trigger>>
hitVars ==
    <<reticle, activeHitSource, pendingRayRef, timeSinceTap, requests,
      nextHandle, returned, cancelled, consumed, placedFor>>
spaceVars == <<spacesPromise, spaceWaiters, spacesSession>>
xrVars == <<session, hasHitTest, cameraIntrinsics, ended>>

\* last: the branch a step took, the ray it worked with and, for a poll that
\* got results, the pose of results[0] (0 when there is none)
\* `others` tells that the projector met a source other than the designated one
Did(tag) == [tag |-> tag, ray |-> NoRay, first |-> 0, others |-> FALSE]
DidWith(tag, ray) == [tag |-> tag, ray |-> ray, first |-> 0, others |-> FALSE]

\* the state after main() has built the world, with the calibration record
\* fetchCameraIntrinsics() returned being one of `calibs`
InitWith(calibs) ==
    /\ phase = "between"
    /\ xrFrame = FALSE
    /\ last = Did("init")
    /\ session = 0
    /\ hasHitTest = FALSE
    /\ spacesPromise = "null"
    /\ spaceWaiters = <<>>
    /\ panelMesh = FALSE
    /\ cameraImageMapping = NoMapping
    /\ cameraIntrinsics \in calibs
    /\ panelHoverUv = NoUv
    /\ pendingRayUv = NoUv
    /\ lastTapUv = NoUv
    /\ prevPressed = FALSE
    /\ reticle = NoReticle
    /\ activeHitSource = NoHandle
    /\ pendingRayRef = NoRay
    /\ timeSinceTap = 0
    /\ requests = {}
    /\ nextHandle = 1
    /\ nextSample = 1
    /\ returned = {}
    /\ cancelled = {}
    /\ consumed = {}
    /\ placedFor = [s \in 1..MaxSamples |-> 0]
    /\ trigger = FALSE
    /\ canvas = BlankCanvas
    /\ ended = 0
    /\ spacesSession = 0

\* the device reports no lens calibration: the expected steady state
Init == InitWith({NoIntrinsics})
\* any calibration record
InitCalibrated == InitWith(Calibrations)

\* ------------------------------------------------------------ the XR session
\* The user enters the immersive session; the device may lack hit-test.
StartSession ==
    /\ phase = "between"
    /\ session = 0
    /\ ended < MaxSessions
    /\ session' = ended + 1
    /\ hasHitTest' \in BOOLEAN
    /\ last' = Did("session")
    /\ UNCHANGED <<phase, xrFrame, cameraIntrinsics, ended, pendingRayUv>>
    /\ UNCHANGED <<panelVars, tapVars, hitVars, spaceVars>>

\* The user leaves the immersive session: getSession() gives null again.  No
\* system listens for the end of the session, so no field is reset.
EndSession ==
    /\ phase = "between"
    /\ session # 0
    /\ session < MaxSessions
    /\ session' = 0
    /\ ended' = ended + 1
    /\ last' = Did("sessionend")
    /\ UNCHANGED <<phase, xrFrame, hasHitTest, cameraIntrinsics, pendingRayUv>>
    /\ UNCHANGED <<panelVars, tapVars, hitVars, spaceVars>>

\* The render loop starts a frame: the systems then run in registration order.
BeginFrame ==
    /\ phase = "between"
    /\ timeSinceTap <= MaxElapsed
    /\ Len(spaceWaiters) < MaxWaiters \/ spacesPromise # "pending"
    /\ phase' = "panel"
    /\ xrFrame' \in (IF session = 0 THEN {FALSE} ELSE BOOLEAN)
    /\ last' = Did("frame")
    /\ UNCHANGED <<xrVars, pendingRayUv, panelVars, tapVars, hitVars, spaceVars>>

\* --------------------------------------------------------- CameraPanelSystem
\* an ensurePanel that builds the mesh without a 2D context
ensurePanel_IgnoresContext(mesh, ctxOK) == TRUE

\* ensurePanel: creates the canvas and the mesh once; without a 2D context it
\* leaves panelMesh unset.
ensurePanel(mesh, ctxOK) == mesh \/ ctxOK

\* The mapping update() exports for a captured frame of size <<w, h>>: the
\* object literal of lines 113-118 has four properties, so the other four
\* the orchestrator reads are undefined.
PublishedMapping(size) ==
    [srcW |-> size[1], srcH |-> size[2], panelW |-> PANEL_W, panelH |-> PANEL_H,
     renderW |-> Undefined, renderH |-> Undefined,
     offsetX |-> Undefined, offsetY |-> Undefined]

\* a renderer that clears the panel when captureFrame gives no frame
Render_BlanksWithoutFrame(cv, mapping, size, hover, tap) ==
    IF size[1] = 0 \/ size[2] = 0
    THEN [canvas |-> BlankCanvas, mapping |-> mapping]
    ELSE [canvas |-> [drawn |-> TRUE, hover |-> hover # NoUv, tap |-> tap # NoUv],
          mapping |-> PublishedMapping(size)]

\* lines 95-143, with a panel: no frame (or an empty one) returns before
\* clearRect; a frame is drawn over the whole canvas, the mapping exported
\* and the hover ring and the tap dot drawn on top
Render(cv, mapping, size, hover, tap) ==
    IF size[1] = 0 \/ size[2] = 0
    THEN [canvas |-> cv, mapping |-> mapping]
    ELSE [canvas |-> [drawn |-> TRUE, hover |-> hover # NoUv, tap |-> tap # NoUv],
          mapping |-> PublishedMapping(size)]

\* the branch update() takes: no 2D context and no panel yet (panelnoctx),
\* no frame (panelnoframe), a frame drawn (paneldrawn)
PanelTag(mesh, ctxOK, size) ==
    IF ~mesh /\ ~ctxOK THEN "panelnoctx"
    ELSE IF size[1] = 0 \/ size[2] = 0 THEN "panelnoframe"
    ELSE "paneldrawn"

\* CameraPanelSystem.update with a frame size drawn from sizes: size <<0, 0>>
\* stands for "captureFrame gave null".
PanelStep(sizes) ==
    /\ phase = "panel"
    /\ \E ctxOK \in (IF panelMesh THEN {TRUE} ELSE BOOLEAN), size \in sizes :
          LET out == Render(canvas, cameraImageMapping, size, panelHoverUv, lastTapUv)
          IN  /\ panelMesh' = ensurePanel(panelMesh, ctxOK)
              /\ cameraImageMapping' =
                    IF panelMesh' THEN out.mapping ELSE cameraImageMapping
              /\ canvas' = IF panelMesh' THEN out.canvas ELSE canvas
              /\ last' = Did(PanelTag(panelMesh, ctxOK, size))
    /\ phase' = "tap"
    /\ UNCHANGED <<xrFrame, xrVars, pendingRayUv, tapVars, hitVars, spaceVars>>

\* a camera that may give no frame on any tick
CameraPanelUpdate == PanelStep(FrameSizes \cup {<<0, 0>>})

\* a camera that, once it has given a frame, gives one on every tick
CameraPanelSteady ==
    PanelStep(IF canvas.drawn THEN FrameSizes ELSE FrameSizes \cup {<<0, 0>>})

\* -------------------------------------------------- ControllerPanelTapSystem
NoHit == <<0, 0, 0>>
\* an input source of the session: handedness, targetRayMode, whether
\* frame.getPose gives a pose, the raycaster's first hit uv (<<1, x, y>>, or
\* NoHit) and the trigger (gamepad.buttons[0].pressed)
Source(hand, mode, pose, hit, pressed) ==
    [hand |-> hand, mode |-> mode, pose |-> pose, hit |-> hit, pressed |-> pressed]
\* (the raycast is made only with a pose: a source without one has no hit)
RightSources ==
    { s \in { Source("right", "tracked-pointer", pose, hit, pressed) :
                pose \in BOOLEAN,
                hit \in {NoHit} \cup { <<1, uv[1], uv[2]>> : uv \in HitUvs },
                pressed \in BOOLEAN } :
        s.pose \/ s.hit = NoHit }
\* the other hand, and a gaze source: both point at the panel, trigger pressed
LeftSource == Source("left", "tracked-pointer", TRUE, <<1, 1, 1>>, TRUE)
GazeSource == Source("none", "gaze", TRUE, <<1, 1, 1>>, TRUE)
SourceLists ==
    {<<>>, <<LeftSource>>, <<GazeSource>>} \cup { <<r>> : r \in RightSources }
        \cup { <<LeftSource, r>> : r \in RightSources }
        \cup { <<r, LeftSource>> : r \in RightSources }
\* the right controller alone, trigger released
HoverLists == {<<>>} \cup { <<r>> : r \in { x \in RightSources : ~x.pressed } }

\* a filter that lets a tracked pointer of either hand drive the cursor
Designated_AnyHand(src) == src.mode = "tracked-pointer"

\* the filters of lines 46-51: a tracked pointer whose handedness is right
Designated(src) ==
    /\ src.mode = "tracked-pointer"
    /\ ~(src.hand # "" /\ src.hand # "right")

\* a loop body that keeps a pending sample the orchestrator has not read
ProjectSource_KeepsUnread(src, st, probing) ==
    IF ~Designated(src) \/ ~src.pose
    THEN st
    ELSE LET hovering == src.hit # NoHit
             sample == [id |-> st.nextSample, u |-> src.hit[2],
                        v |-> UvScale - src.hit[3], probing |-> probing]
             click == src.pressed /\ ~st.prevPressed
         IN  [hoverUv |-> IF hovering THEN sample ELSE st.hoverUv,
              pendingRayUv |-> IF hovering /\ st.pendingRayUv = NoUv
                               THEN sample ELSE st.pendingRayUv,
              lastTapUv |-> IF hovering /\ click THEN sample ELSE st.lastTapUv,
              prevPressed |-> src.pressed,
              nextSample |-> IF hovering THEN st.nextSample + 1 ELSE st.nextSample]

\* a loop body that withdraws the pending sample when the pointer is off the panel
ProjectSource_ClearsOnMiss(src, st, probing) ==
    IF ~Designated(src) \/ ~src.pose
    THEN st
    ELSE LET hovering == src.hit # NoHit
             sample == [id |-> st.nextSample, u |-> src.hit[2],
                        v |-> UvScale - src.hit[3], probing |-> probing]
             click == src.pressed /\ ~st.prevPressed
         IN  [hoverUv |-> IF hovering THEN sample ELSE st.hoverUv,
              pendingRayUv |-> IF hovering THEN sample ELSE NoUv,
              lastTapUv |-> IF hovering /\ click THEN sample ELSE st.lastTapUv,
              prevPressed |-> src.pressed,
              nextSample |-> IF hovering THEN st.nextSample + 1 ELSE st.nextSample]

\* One pass of the loop body over an input source.  st holds the locals and
\* the fields the loop writes.
ProjectSource(src, st, probing) ==
    IF ~Designated(src) \/ ~src.pose
    THEN st
    ELSE LET hovering == src.hit # NoHit
             sample == [id |-> st.nextSample, u |-> src.hit[2],
                        v |-> UvScale - src.hit[3], probing |-> probing]
             click == src.pressed /\ ~st.prevPressed
         IN  [hoverUv |-> IF hovering THEN sample ELSE st.hoverUv,
              pendingRayUv |-> IF hovering THEN sample ELSE st.pendingRayUv,
              lastTapUv |-> IF hovering /\ click THEN sample ELSE st.lastTapUv,
              prevPressed |-> src.pressed,
              nextSample |-> IF hovering THEN st.nextSample + 1 ELSE st.nextSample]

RECURSIVE ProjectSources(_, _, _)
ProjectSources(srcs, st, probing) ==
    IF srcs = <<>>
    THEN st
    ELSE ProjectSources(Tail(srcs), ProjectSource(Head(srcs), st, probing), probing)

\* the right-hand tracked pointers of a list (the lists here hold at most one)
RightPointer(src) == src.hand = "right" /\ src.mode = "tracked-pointer"
DesignatedIn(srcs) == { srcs[i] : i \in { j \in DOMAIN srcs : RightPointer(srcs[j]) } }

\* what the update met: it returned before the loop (tapoff), found no
\* designated source (tapnone), found it without a pose (taplost), off the
\* panel (tapmiss), on the panel (taphover) or on the panel with the trigger
\* newly pressed (tapclick)
Met(srcs, runs, prev) ==
    IF ~runs
    THEN "tapoff"
    ELSE IF DesignatedIn(srcs) = {}
    THEN "tapnone"
    ELSE LET r == CHOOSE x \in DesignatedIn(srcs) : TRUE
         IN  IF ~r.pose THEN "taplost"
             ELSE IF r.hit = NoHit THEN "tapmiss"
             ELSE IF r.pressed /\ ~prev THEN "tapclick"
             ELSE "taphover"

\* hits[0].uv of the designated source when its ray meets the panel
RawHit(srcs) ==
    IF \E r \in DesignatedIn(srcs) : r.pose /\ r.hit # NoHit
    THEN LET r == CHOOSE x \in DesignatedIn(srcs) : TRUE
         IN  [sample |-> 0, u |-> r.hit[2], v |-> r.hit[3], path |-> "raw",
              probing |-> FALSE, imgU |-> 0, imgV |-> 0]
    ELSE NoRay

\* the trigger of the designated controller in this frame
TriggerOf(srcs) == \E r \in DesignatedIn(srcs) : r.pressed

\* ControllerPanelTapSystem.update, for the input sources of one of `lists`
TapUpdate(lists) ==
    /\ phase = "tap"
    /\ \E srcs \in lists :
          LET st0 == [hoverUv |-> NoUv, pendingRayUv |-> pendingRayUv,
                      lastTapUv |-> lastTapUv, prevPressed |-> prevPressed,
                      nextSample |-> nextSample]
              st == ProjectSources(srcs, st0, activeHitSource # NoHandle)
              runs == session # 0 /\ xrFrame /\ panelMesh
          IN  /\ st.nextSample <= MaxSamples + 1
              /\ runs \/ srcs = <<>>
              /\ panelHoverUv' = IF runs THEN st.hoverUv ELSE panelHoverUv
              /\ pendingRayUv' = IF runs THEN st.pendingRayUv ELSE pendingRayUv
              /\ lastTapUv' = IF runs THEN st.lastTapUv ELSE lastTapUv
              /\ prevPressed' = IF runs THEN st.prevPressed ELSE prevPressed
              /\ nextSample' = IF runs THEN st.nextSample ELSE nextSample
              /\ trigger' = TriggerOf(srcs)
              /\ last' = [DidWith(Met(srcs, runs, prevPressed),
                                   IF runs THEN RawHit(srcs) ELSE NoRay) EXCEPT
                             !.others = \E i \in DOMAIN srcs : ~RightPointer(srcs[i])]
    /\ phase' = "hit"
    /\ UNCHANGED <<xrFrame, xrVars, panelVars, hitVars, spaceVars>>

\* any input sources, trigger included
ControllerPanelTapUpdate == TapUpdate(SourceLists)
\* the pointer hovers over the panel, leaves it or loses tracking
ControllerPanelHover == TapUpdate(HoverLists)
\* the tracked right controller alone, trigger pressed or released
PointLists == {<<>>} \cup { <<r>> : r \in { x \in RightSources : x.pose } }
ControllerPanelPoint == TapUpdate(PointLists)

\* --------------------------------------------------------- TapHitDebugSystem
\* The fields update() reads and writes, as one record.
Cur ==
    [reticle |-> reticle, activeHitSource |-> activeHitSource,
     pendingRayRef |-> pendingRayRef, timeSinceTap |-> timeSinceTap,
     pendingRayUv |-> pendingRayUv, requests |-> requests,
     nextHandle |-> nextHandle, returned |-> returned, cancelled |-> cancelled,
     consumed |-> consumed, placedFor |-> placedFor, last |-> last]

\* One more marker placement derived from sample s (counted up to 2).
Count(pf, s) ==
    IF s \in DOMAIN pf THEN [pf EXCEPT ![s] = IF @ < 2 THEN @ + 1 ELSE @] ELSE pf

\* ensureReticle (lines 95-118): the mesh is created once, hidden
ensureReticle(r) == IF r.exists THEN r ELSE [r EXCEPT !.exists = TRUE]

\* vectors are <<x, y, z>> in millimetres; a rotation is given by the images
\* of the three axes (Quaternion.multiply composes, applyQuaternion applies)
VAdd(a, b) == <<a[1] + b[1], a[2] + b[2], a[3] + b[3]>>
VScale(k, a) == <<k * a[1], k * a[2], k * a[3]>>
Apply(rot, a) == VAdd(VAdd(VScale(a[1], rot.x), VScale(a[2], rot.y)), VScale(a[3], rot.z))
Compose(p, q) == [x |-> Apply(p, q.x), y |-> Apply(p, q.y), z |-> Apply(p, q.z)]

RETICLE_Z_OFFSET == 2    \* 0.002 m
\* reticlePreRot: Euler(-PI/2, 0, 0), the rotation by -90 degrees about X,
\* which takes +Y to -Z and +Z to +Y
reticlePreRot == [x |-> <<1, 0, 0>>, y |-> <<0, 0, 0 - 1>>, z |-> <<0, 1, 0>>]

\* the transform results[i].getPose(refSpace) gives for the results of the
\* model: 1 lies on the floor (local +Y up), 2 on a wall facing the viewer
\* (local +Y is the room's +Z)
HitPose(id) ==
    IF id = 1
    THEN [pos |-> <<0, 0, 0 - 1000>>,
          rot |-> [x |-> <<1, 0, 0>>, y |-> <<0, 1, 0>>, z |-> <<0, 0, 1>>]]
    ELSE [pos |-> <<0, 1000, 0 - 2000>>,
          rot |-> [x |-> <<1, 0, 0>>, y |-> <<0, 0, 1>>, z |-> <<0, 0 - 1, 0>>]]

\* a placement that leaves out the pre-rotation
PlacedQuaternion_NoPreRot(pose) == pose.rot

\* lines 122-132: the marker's quaternion is the pose's times reticlePreRot
PlacedQuaternion(pose) == Compose(pose.rot, reticlePreRot)

\* lines 135-138: normal = (0, 1, 0) turned by that quaternion (a unit
\* vector, which normalize() keeps), position = pos + RETICLE_Z_OFFSET * normal
PlacedPosition(pose) ==
    VAdd(pose.pos,
         VScale(RETICLE_Z_OFFSET, Apply(PlacedQuaternion(pose), <<0, 1, 0>>)))

\* placeReticleAtPoseMatrix, for the hit pose of the probe of sample s: the
\* marker keeps the result it was placed at, its transform is
\* PlacedPosition and PlacedQuaternion of that result's pose
placeReticleAtPoseMatrix(o, pose, s) ==
    IF ~o.reticle.exists
    THEN o
    ELSE [o EXCEPT !.reticle = [exists |-> TRUE, visible |-> TRUE, kind |-> "hit",
                                pose |-> pose, ray |-> NoRay],
                   !.placedFor = Count(@, s)]

\* a vector with NaN components, and the unit vectors along the axes
NaNVec == <<NaN, NaN, NaN>>
Axes ==
    {<<1, 0, 0>>, <<0 - 1, 0, 0>>, <<0, 1, 0>>, <<0, 0 - 1, 0>>,
     <<0, 0, 1>>, <<0, 0, 0 - 1>>}
\* Vector3.crossVectors
Cross(a, b) ==
    <<a[2] * b[3] - a[3] * b[2], a[3] * b[1] - a[1] * b[3], a[1] * b[2] - a[2] * b[1]>>

\* lines 151-163: the basis of the fallback marker for a ray direction along
\* an axis (the cross products of perpendicular unit vectors are unit
\* vectors, which normalize() keeps).  Math.abs(NaN) > 0.9 is false and every
\* product with NaN is NaN, so a NaN direction gives a NaN basis.
FallbackBasis(dir) ==
    IF dir = NaNVec
    THEN [x |-> NaNVec, y |-> NaNVec, z |-> NaNVec]
    ELSE LET normal == dir
             up == IF normal[2] # 0 THEN <<1, 0, 0>> ELSE <<0, 1, 0>>
             tangent == Cross(up, normal)
             bitangent == Cross(normal, tangent)
         IN  [x |-> tangent, y |-> normal, z |-> bitangent]

\* placeReticleFallback(origin, dir): the marker goes FALLBACK_DISTANCE along ray
placeReticleFallback(o, ray) ==
    IF ~o.reticle.exists
    THEN o
    ELSE [o EXCEPT !.reticle = [exists |-> TRUE, visible |-> TRUE,
                                kind |-> "fallback", pose |-> 0, ray |-> ray],
                   !.placedFor = Count(@, ray.sample)]

\* a test that takes the pinhole parameters alone for a complete record
useIntrinsics_IgnoresLensPose(calib) ==
    /\ calib.present
    /\ calib.width # 0 /\ calib.height # 0
    /\ calib.fx # 0 /\ calib.fy # 0
    /\ calib.cx # Undefined /\ calib.cy # Undefined

\* useIntrinsics (lines 308-317): width, height, fx and fy are tested for
\* truthiness, cx and cy against undefined, the lens pose for presence
useIntrinsics(calib) ==
    /\ calib.present
    /\ calib.width # 0 /\ calib.height # 0
    /\ calib.fx # 0 /\ calib.fy # 0
    /\ calib.cx # Undefined /\ calib.cy # Undefined
    /\ calib.lensRotation /\ calib.lensTranslation

\* THREE.MathUtils.clamp on numbers
Clamp(x, lo, hi) == IF x < lo THEN lo ELSE IF x > hi THEN hi ELSE x

\* lines 274-283 for one axis: clamp((p - offset) / render, 0, 1) in
\* thousandths.  An undefined operand makes the quotient NaN, 0 / 0 is NaN,
\* and clamp (Math.max of Math.min) hands NaN through.
ImageCoord(p, offset, render) ==
    IF offset = Undefined \/ render = Undefined
    THEN NaN
    ELSE IF render = 0
    THEN (IF p = offset THEN NaN ELSE IF p > offset THEN ImgScale ELSE 0)
    ELSE Clamp(((p - offset) * ImgScale) \div render, 0, ImgScale)

\* lines 269-283: panel pixel <<px, py>> to image uv
PanelPixelToImage(px, py, mapping) ==
    <<ImageCoord(px, mapping.offsetX, mapping.renderW),
      ImageCoord(py, mapping.offsetY, mapping.renderH)>>

\* lines 269-283 for a sample: px = u * panelW, py = v * panelH
ImageUv(sample, mapping) ==
    PanelPixelToImage((sample.u * mapping.panelW) \div UvScale,
                      (sample.v * mapping.panelH) \div UvScale, mapping)

\* the length 1, in thousandths
Unit == 1000

\* the length of the vector Vector3.normalize() leaves for a direction computed
\* from image uv <<imgU, imgV>>: normalize divides by (length() || 1), so a
\* vector with a NaN component keeps it and has length NaN; the directions of
\* lines 326, 362, 389 and 187 are finite and not zero for a finite image uv
normalize(imgU, imgV) == IF imgU = NaN \/ imgV = NaN THEN NaN ELSE Unit

\* a reconstruction that leaves the calibrated path once the marker is shown
Reconstruct_Biased(sample, calib) ==
    [sample |-> sample.id, u |-> sample.u, v |-> sample.v,
     path |-> IF useIntrinsics(calib) /\ ~reticle.visible
              THEN "intrinsics" ELSE "unproject",
     probing |-> sample.probing,
     imgU |-> ImageUv(sample, cameraImageMapping)[1],
     imgV |-> ImageUv(sample, cameraImageMapping)[2]]

\* the directions a ray of the model may have in the room: NaN for a NaN image
\* uv, and any direction otherwise, the head pose of the frame being free
RayDirections(ray) ==
    IF normalize(ray.imgU, ray.imgV) = NaN THEN {NaNVec} ELSE Axes

\* The room-space ray update() reconstructs for a consumed sample.
Reconstruct(sample, calib) ==
    [sample |-> sample.id, u |-> sample.u, v |-> sample.v,
     path |-> IF useIntrinsics(calib) THEN "intrinsics" ELSE "unproject",
     probing |-> sample.probing,
     imgU |-> ImageUv(sample, cameraImageMapping)[1],
     imgV |-> ImageUv(sample, cameraImageMapping)[2]]

\* The ray of the no-viewer-pose branch: unprojected through the scene camera.
CameraRay(sample) ==
    [sample |-> sample.id, u |-> sample.u, v |-> sample.v, path |-> "camera",
     probing |-> sample.probing,
     imgU |-> ImageUv(sample, cameraImageMapping)[1],
     imgV |-> ImageUv(sample, cameraImageMapping)[2]]

\* The sample a step dropped without forming a ray.
Dropped(sample) ==
    [sample |-> sample.id, u |-> sample.u, v |-> sample.v, path |-> "none",
     probing |-> sample.probing, imgU |-> 0, imgV |-> 0]

\* An external call of this update throws: `stale` is an XRFrame used after its
\* frame callback has returned, whose methods throw InvalidStateError.
Fails(in, call) ==
    \/ in.fail = call
    \/ in.fail = "stale" /\ call \in {"getHitTestResults", "getViewerPose"}

\* The exception leaves update(): the promise it returned rejects.
Threw(o, call) == [o EXCEPT !.last = Did("threw")]

\* a return to Idle that hides the marker
Release_HidesMarker(o, tag, ray) ==
    [o EXCEPT !.cancelled = @ \cup {o.activeHitSource.id},
              !.activeHitSource = NoHandle,
              !.pendingRayRef = NoRay,
              !.timeSinceTap = 0,
              !.reticle.visible = FALSE,
              !.last = DidWith(tag, ray)]

\* cancel the active source and go back to Idle (lines 219-222 and 231-234)
Release(o, tag, ray) ==
    [o EXCEPT !.cancelled = @ \cup {o.activeHitSource.id},
              !.activeHitSource = NoHandle,
              !.pendingRayRef = NoRay,
              !.timeSinceTap = 0,
              !.last = DidWith(tag, ray)]

\* results.length > 0: the first result places the marker
ResolveHit(o, in) ==
    IF Fails(in, "getPose")
    THEN Threw(o, "getPose")
    ELSE LET o1 == IF in.poseOK
                   THEN placeReticleAtPoseMatrix(o, in.results[1],
                                                 o.activeHitSource.sample)
                   ELSE o
         IN  IF Fails(in, "cancel")
             THEN Threw(o1, "cancel")
             ELSE [Release(o1, IF in.poseOK THEN "hit" ELSE "hitnopose", NoRay)
                      EXCEPT !.last.first = Head(in.results)]

\* timeSinceTap > HIT_TIMEOUT with a recorded ray: fallback along that ray
ResolveTimeout(o, in) ==
    LET o1 == placeReticleFallback(o, o.pendingRayRef)
    IN  IF Fails(in, "cancel")
        THEN Threw(o1, "cancel")
        ELSE Release(o1, "timeout", o.pendingRayRef)

\* a poll that drops the recorded ray on a tick with nothing to resolve
Poll_ForgetsRay(o, in) ==
    LET o1 == [o EXCEPT !.timeSinceTap = @ + in.dt]
    IN  IF Fails(in, "getHitTestResults")
        THEN Threw(o1, "getHitTestResults")
        ELSE IF in.results # <<>>
        THEN ResolveHit(o1, in)
        ELSE IF o1.timeSinceTap > HIT_TIMEOUT /\ o1.pendingRayRef # NoRay
        THEN ResolveTimeout(o1, in)
        ELSE [o1 EXCEPT !.pendingRayRef = NoRay, !.last = Did("wait")]

\* 1) an active hit-test source is polled (lines 208-238)
Poll(o, in) ==
    LET o1 == [o EXCEPT !.timeSinceTap = @ + in.dt]
    IN  IF Fails(in, "getHitTestResults")
        THEN Threw(o1, "getHitTestResults")
        ELSE IF in.results # <<>>
        THEN ResolveHit(o1, in)
        ELSE IF o1.timeSinceTap > HIT_TIMEOUT /\ o1.pendingRayRef # NoRay
        THEN ResolveTimeout(o1, in)
        ELSE [o1 EXCEPT !.last = Did("wait")]

\* a catch block that forgets to clear the recorded ray
CatchRequestFailure_KeepsRay(o, ray) ==
    [placeReticleFallback(o, ray) EXCEPT
        !.activeHitSource = NoHandle,
        !.timeSinceTap = 0,
        !.last = DidWith("reqfail", ray)]

\* the catch block of lines 440-446
CatchRequestFailure(o, ray) ==
    [placeReticleFallback(o, ray) EXCEPT
        !.activeHitSource = NoHandle,
        !.pendingRayRef = NoRay,
        !.timeSinceTap = 0,
        !.last = DidWith("reqfail", ray)]

\* the viewer poses of the model (viewerPose.transform, viewer to room): at
\* the room's origin looking along -Z, standing and turned a quarter turn
\* about Y, and standing and tilted a quarter turn about X
ViewerPoses ==
    {[pos |-> <<0, 0, 0>>,
      rot |-> [x |-> <<1, 0, 0>>, y |-> <<0, 1, 0>>, z |-> <<0, 0, 1>>]],
     [pos |-> <<500, 1600, 0 - 300>>,
      rot |-> [x |-> <<0, 0, 0 - 1>>, y |-> <<0, 1, 0>>, z |-> <<1, 0, 0>>]],
     [pos |-> <<0, 1600, 200>>,
      rot |-> [x |-> <<1, 0, 0>>, y |-> <<0, 0, 1>>, z |-> <<0, 0 - 1, 0>>]]}
\* ray origins in the room, in millimetres
Origins == {<<0, 0, 0>>, <<500, 1600, 0 - 300>>, <<60, 1570, 150>>}

VSub(a, b) == <<a[1] - b[1], a[2] - b[2], a[3] - b[3]>>
Dot(a, b) == a[1] * b[1] + a[2] * b[2] + a[3] * b[3]
\* Matrix4.invert of a rigid transform applied to a point (line 176 and
\* applyMatrix4): the transposed rotation applied to the point less the position
InvertApply(pose, p) ==
    LET d == VSub(p, pose.pos)
    IN  <<Dot(pose.rot.x, d), Dot(pose.rot.y, d), Dot(pose.rot.z, d)>>

\* a conversion that hands the room-space ray through
rayRefSpaceToViewerSpace_Room(originRef, dirRef, viewerPose) ==
    [originView |-> originRef, dirView |-> dirRef]

\* rayRefSpaceToViewerSpace (lines 170-189): the origin and the point one
\* direction further are taken through the inverse, their difference is the
\* direction (a unit vector for a unit dirRef, which normalize() keeps; NaN
\* for a NaN dirRef)
rayRefSpaceToViewerSpace(originRef, dirRef, viewerPose) ==
    LET originView == InvertApply(viewerPose, originRef)
        pView == IF dirRef = NaNVec
                 THEN NaNVec
                 ELSE InvertApply(viewerPose, VAdd(originRef, dirRef))
    IN  [originView |-> originView,
         dirView |-> IF pView = NaNVec THEN NaNVec ELSE VSub(pView, originView)]

\* lines 404-439: record the ray, then ask the session for a hit-test source;
\* the update stays suspended at the await until the platform answers
IssueProbe(o, ray, in) ==
    LET o1 == [o EXCEPT !.pendingRayRef = ray, !.timeSinceTap = 0]
    IN  IF ~hasHitTest
        THEN [placeReticleFallback(o1, ray) EXCEPT
                 !.pendingRayRef = NoRay, !.last = DidWith("noapi", ray)]
        ELSE IF Fails(in, "request")
        THEN CatchRequestFailure(o1, ray)
        ELSE [o1 EXCEPT
                 !.requests = @ \cup {[handle |-> [id |-> o.nextHandle,
                                                   sample |-> ray.sample],
                                       ray |-> ray, space |-> "viewer"]},
                 !.nextHandle = @ + 1,
                 !.last = DidWith("issued", ray)]

\* lines 255-256: the pending sample is read and cleared
ConsumeSample(o) ==
    [o EXCEPT !.pendingRayUv = NoUv, !.consumed = @ \cup {o.pendingRayUv.id}]

\* a no-mapping branch that places the marker along the scene camera's ray
DropSample_PlacesFallback(o) ==
    [placeReticleFallback(ConsumeSample(o), CameraRay(o.pendingRayUv)) EXCEPT
        !.last = DidWith("nomapping", Dropped(o.pendingRayUv))]

\* lines 244-250: no mapping is published, the sample is cleared and dropped
DropSample(o) ==
    [ConsumeSample(o) EXCEPT !.last = DidWith("nomapping", Dropped(o.pendingRayUv))]

\* lines 291-305: no viewer pose, fallback along the scene camera's ray
NoViewerPose(o, sample) ==
    [placeReticleFallback(o, CameraRay(sample)) EXCEPT
        !.pendingRayRef = NoRay,
        !.last = DidWith("nopose", CameraRay(sample))]

\* 2) no active source (lines 241-446)
Idle(o, in) ==
    LET sample == o.pendingRayUv
    IN  IF sample = NoUv
        THEN [o EXCEPT !.last = Did("nosample")]
        ELSE IF cameraImageMapping = NoMapping
        THEN DropSample(o)
        ELSE LET o1 == ConsumeSample(o)
             IN  IF Fails(in, "getViewerPose")
                 THEN Threw(o1, "getViewerPose")
                 ELSE IF ~in.vpOK
                 THEN NoViewerPose(o1, sample)
                 ELSE IssueProbe(o1, Reconstruct(sample, cameraIntrinsics), in)

\* an update that clears the pending sample while it polls
Body_DropsWhilePolling(o, in) ==
    IF ~in.frame
    THEN [o EXCEPT !.last = Did("noframe")]
    ELSE IF o.activeHitSource # NoHandle
    THEN [Poll(o, in) EXCEPT !.pendingRayUv = NoUv]
    ELSE Idle(o, in)

\* update() after `await this.ensureSpaces()` gave the spaces (lines 203-447)
Body(o, in) ==
    IF ~in.frame
    THEN [o EXCEPT !.last = Did("noframe")]
    ELSE IF o.activeHitSource # NoHandle
    THEN Poll(o, in)
    ELSE Idle(o, in)

\* what the frame and the platform give one update() call
Input(frame, dt, results, poseOK, vpOK, fail) ==
    [frame |-> frame, dt |-> dt, results |-> results, poseOK |-> poseOK,
     vpOK |-> vpOK, fail |-> fail]

\* the inputs the branch update() takes can read
Inputs ==
    IF session = 0 \/ spacesPromise = "rejected"
    THEN {Input(xrFrame, 1, <<>>, TRUE, TRUE, "none")}
    ELSE IF spacesPromise # "resolved"
    THEN {Input(xrFrame, dt, <<>>, TRUE, TRUE, "stale") : dt \in Dts}
    ELSE IF ~xrFrame
    THEN {Input(FALSE, 1, <<>>, TRUE, TRUE, "none")}
    ELSE IF activeHitSource # NoHandle
    THEN { in \in {Input(TRUE, dt, results, poseOK, TRUE, fail) :
                     dt \in Dts, results \in ResultLists, poseOK \in BOOLEAN,
                     fail \in {"none", "getHitTestResults", "getPose", "cancel"}} :
            \* getPose is called, and its answer read, only for a result
            /\ in.fail = "getHitTestResults" => in.results = <<>>
            /\ in.fail = "getPose" => in.results # <<>>
            /\ in.results = <<>> \/ in.fail = "getPose" => in.poseOK }
    ELSE IF pendingRayUv = NoUv
    THEN {Input(TRUE, 1, <<>>, TRUE, TRUE, "none")}
    ELSE { in \in {Input(TRUE, 1, <<>>, TRUE, vpOK, fail) :
                     vpOK \in BOOLEAN, fail \in {"none", "getViewerPose", "request"}} :
            \* the request is made only with a viewer pose
            in.fail # "none" => in.vpOK }

\* the new values of the fields of o
Store(o) ==
    /\ reticle' = o.reticle
    /\ activeHitSource' = o.activeHitSource
    /\ pendingRayRef' = o.pendingRayRef
    /\ timeSinceTap' = o.timeSinceTap
    /\ pendingRayUv' = o.pendingRayUv
    /\ requests' = o.requests
    /\ nextHandle' = o.nextHandle
    /\ returned' = o.returned
    /\ cancelled' = o.cancelled
    /\ consumed' = o.consumed
    /\ placedFor' = o.placedFor
    /\ last' = o.last

\* TapHitDebugSystem.update(dt, time), up to its return or its first await on
\* a promise that is not settled yet, for what the platform gives in `ins`
TapHitStep(ins) ==
    /\ phase = "hit"
    /\ phase' = "between"
    /\ \E in \in ins :
          LET o == [Cur EXCEPT !.reticle = ensureReticle(@)]
          IN  IF session = 0
              THEN /\ Store([o EXCEPT !.last = Did("nosession")])
                   /\ UNCHANGED spaceVars
              ELSE IF spacesPromise = "rejected"
              THEN /\ Store(Threw(o, "ensureSpaces"))
                   /\ UNCHANGED spaceVars
              ELSE IF spacesPromise # "resolved"
              THEN /\ Store([o EXCEPT !.last = Did("suspended")])
                   /\ spacesPromise' = "pending"
                   /\ spaceWaiters' = Append(spaceWaiters, in)
                   /\ spacesSession' =
                         IF spacesPromise = "null" THEN session ELSE spacesSession
              ELSE /\ Body(o, in).nextHandle <= MaxProbes + 1
                   /\ Store(Body(o, in))
                   /\ UNCHANGED spaceVars
    /\ xrFrame' = FALSE
    /\ UNCHANGED <<xrVars, panelVars, tapVars>>

\* the platform may fail any call
TapHitUpdate == TapHitStep(Inputs)
\* the platform fails no call of a live frame and frames take a tenth of a second
QuietInputs == { in \in Inputs : in.fail \in {"none", "stale"} /\ in.dt = 1 }
TapHitQuiet == TapHitStep(QuietInputs)

\* the updates suspended on the spaces promise continue, oldest first
RECURSIVE Resume(_, _)
Resume(o, waiters) ==
    IF waiters = <<>>
    THEN o
    ELSE LET o1 == Body(o, Head(waiters))
         IN  Resume([o1 EXCEPT !.last =
                        IF o.last.tag = "threw" THEN o.last ELSE o1.last],
                    Tail(waiters))

\* session.requestReferenceSpace answers: spacesPromise resolves
ResolveSpaces ==
    /\ phase = "between"
    /\ spacesPromise = "pending"
    /\ spacesPromise' = "resolved"
    /\ spaceWaiters' = <<>>
    /\ UNCHANGED spacesSession
    /\ Store(Resume([Cur EXCEPT !.last = Did("spaces")], spaceWaiters))
    /\ UNCHANGED <<phase, xrFrame, xrVars, panelVars, tapVars>>

\* session.requestReferenceSpace rejects: every update awaiting it rejects, and
\* spacesPromise keeps the rejected promise
RejectSpaces ==
    /\ phase = "between"
    /\ spacesPromise = "pending"
    /\ spacesPromise' = "rejected"
    /\ spaceWaiters' = <<>>
    /\ UNCHANGED spacesSession
    /\ last' = IF spaceWaiters = <<>> THEN Did("nospaces") ELSE Did("threw")
    /\ UNCHANGED <<phase, xrFrame, xrVars, panelVars, tapVars, pendingRayUv, hitVars>>

\* requestHitTestSource resolves: the suspended update stores the source
ResolveRequest ==
    /\ phase = "between"
    /\ \E r \in requests :
          Store([Cur EXCEPT !.activeHitSource = r.handle,
                            !.returned = @ \cup {r.handle.id},
                            !.requests = @ \ {r},
                            !.last = DidWith("resolved", r.ray)])
    /\ UNCHANGED <<phase, xrFrame, xrVars, panelVars, tapVars, spaceVars>>

\* requestHitTestSource rejects: the suspended update runs its catch block
RejectRequest ==
    /\ phase = "between"
    /\ \E r \in requests :
          Store(CatchRequestFailure([Cur EXCEPT !.requests = @ \ {r}], r.ray))
    /\ UNCHANGED <<phase, xrFrame, xrVars, panelVars, tapVars, spaceVars>>

Next ==
    \/ StartSession
    \/ BeginFrame
    \/ CameraPanelSteady
    \/ ControllerPanelHover
    \/ TapHitUpdate
    \/ ResolveSpaces
    \/ RejectSpaces
    \/ ResolveRequest
    \/ RejectRequest

Spec == Init /\ [][Next]_vars

\* the same session with any calibration record and a platform that fails no
\* call of a live frame
NextCalibrated ==
    \/ StartSession
    \/ BeginFrame
    \/ CameraPanelSteady
    \/ ControllerPanelHover
    \/ TapHitQuiet
    \/ ResolveSpaces
    \/ RejectSpaces
    \/ ResolveRequest
    \/ RejectRequest

SpecCalibrated == InitCalibrated /\ [][NextCalibrated]_vars

\* the same session with any input sources, trigger included
NextTap ==
    \/ StartSession
    \/ BeginFrame
    \/ CameraPanelSteady
    \/ ControllerPanelTapUpdate
    \/ TapHitQuiet
    \/ ResolveSpaces
    \/ RejectSpaces
    \/ ResolveRequest
    \/ RejectRequest

SpecTap == Init /\ [][NextTap]_vars

\* the same session with a camera that may give no frame on any tick
NextPanel ==
    \/ StartSession
    \/ BeginFrame
    \/ CameraPanelUpdate
    \/ ControllerPanelPoint
    \/ TapHitQuiet
    \/ ResolveSpaces
    \/ RejectSpaces
    \/ ResolveRequest
    \/ RejectRequest

SpecPanel == Init /\ [][NextPanel]_vars

\* sessions that end and start again, on a platform that fails no call of a
\* live frame
NextSessions ==
    \/ StartSession
    \/ EndSession
    \/ BeginFrame
    \/ CameraPanelSteady
    \/ ControllerPanelHover
    \/ TapHitQuiet
    \/ ResolveSpaces
    \/ RejectSpaces
    \/ ResolveRequest
    \/ RejectRequest

SpecSessions == Init /\ [][NextSessions]_vars

\* ================================================================== claims
\* probes that were requested and are not resolved yet
Unresolved == { r.handle.id : r \in requests } \cup (returned \ cancelled)

\* C1: from a requestHitTestSource call until that probe is resolved, no
\* other requestHitTestSource call is made: at most one probe is unresolved.
C1_AtMostOneProbe == Cardinality(Unresolved) <= 1

\* C2: update has no suspension point: when a tick's update starts, no
\* earlier update call is still suspended.
C2_NoSuspendedUpdate ==
    phase = "hit" => requests = {} /\ spaceWaiters = <<>>

\* C3: a probe whose results stay empty is resolved by fallback on the first
\* tick where the elapsed time exceeds HIT_TIMEOUT: a poll that leaves the
\* probe active has elapsed time at most HIT_TIMEOUT, and a timeout step
\* ends Idle with the marker at the fallback of the recorded ray.
C3_TimeoutResolvesOnce ==
    /\ last.tag = "wait" => timeSinceTap <= HIT_TIMEOUT
    /\ last.tag = "timeout" =>
          /\ activeHitSource = NoHandle
          /\ reticle.kind = "fallback"
          /\ reticle.ray = last.ray

\* C4: every handle requestHitTestSource returned is either still held in
\* activeHitSource or has had cancel() called on it.
C4_EveryHandleCancelled ==
    \A h \in returned : h = activeHitSource.id \/ h \in cancelled

\* C5: when probe submission fails (no requestHitTestSource, or the request
\* throws or rejects) the marker is placed by fallback along the
\* reconstructed ray and the orchestrator is Idle: no handle, no recorded
\* ray, elapsed 0; the failure is handled inside update.
C5_SubmissionFailureFallsBack ==
    last.tag \in {"noapi", "reqfail"} =>
        /\ reticle.visible
        /\ reticle.kind = "fallback"
        /\ reticle.ray = last.ray
        /\ last.ray.path \in {"intrinsics", "unproject"}
        /\ activeHitSource = NoHandle
        /\ pendingRayRef = NoRay
        /\ timeSinceTap = 0

\* a request rejected while the marker showed a hit pose and while another
\* update was still suspended
C5_Witness ==
    /\ last.tag = "reqfail"
    /\ reticle.ray.sample = last.ray.sample
    /\ requests # {}

\* C6: no failure of an external call makes update throw or reject.
C6_NoUpdateThrows == last.tag # "threw"

\* C7: in Idle, a consumed sample whose reconstruction fails (no mapping, or
\* no viewer pose) is resolved at once by fallback placement, and the
\* orchestrator stays Idle.
C7_ReconstructionFailureFallsBack ==
    last.tag \in {"nomapping", "nopose"} =>
        /\ reticle.visible
        /\ reticle.kind = "fallback"
        /\ reticle.ray.sample = last.ray.sample
        /\ activeHitSource = NoHandle

C9_OnePlacementPerSample ==
    \A s \in consumed :
        /\ placedFor[s] <= 1
        /\ (\E t \in consumed : t > s) => placedFor[s] = 1

\* C10 as stated: no probe request and no marker placement is derived from
\* a sample that was written while a probe was active.
C10_ProbingSamplesDropped ==
    /\ \A r \in requests : ~r.ray.probing
    /\ ~pendingRayRef.probing
    /\ ~reticle.ray.probing

\* C10 amended: while a handle is held, update neither reads nor clears
\* pendingRayUv, issues no request and derives no placement from it; the
\* sample written last stays pending for the first update with no handle.
C10_ProbingSamplesKept ==
    [][phase = "hit" /\ spacesPromise = "resolved" /\ activeHitSource # NoHandle =>
          /\ pendingRayUv' = pendingRayUv
          /\ requests' = requests
          /\ nextHandle' = nextHandle
          /\ pendingRayUv # NoUv =>
                /\ placedFor'[pendingRayUv.id] = placedFor[pendingRayUv.id]
                /\ pendingRayUv.id \notin consumed']_vars

\* a sample written during Probing produced a probe request after the probe
\* of that time was resolved and cancelled
C10_Witness ==
    /\ \E r \in requests : r.ray.probing
    /\ cancelled # {}
    /\ activeHitSource = NoHandle

\* C11: a sample the projector wrote once is processed at most once: no two
\* outstanding probe requests come from it and at most one marker placement
\* is derived from it.
C11_SampleProcessedOnce ==
    /\ \A r1, r2 \in requests :
          r1.handle.sample = r2.handle.sample => r1 = r2
    /\ \A s \in 1..MaxSamples : placedFor[s] <= 1

\* the calibration record has the pinhole parameters and the lens pose
CompleteRecord ==
    /\ cameraIntrinsics.present
    /\ cameraIntrinsics.lensRotation
    /\ cameraIntrinsics.lensTranslation

\* C12: an update that consumes a sample with a mapping and a viewer pose
\* reconstructs a ray for that sample by the calibrated path exactly when
\* the calibration record is complete and by the unproject path when the
\* record is null or partial; it then issues a probe request with that ray
\* when the session has the hit-test API, and never fails for the record.
C12_PathFollowsCalibration ==
    [][phase = "hit" /\ consumed' # consumed
         /\ last'.tag \notin {"nomapping", "nopose"} =>
          /\ last'.ray.sample = pendingRayUv.id
          /\ last'.ray.path = IF CompleteRecord THEN "intrinsics" ELSE "unproject"
          /\ pendingRayUv' = NoUv
          /\ IF hasHitTest
             THEN /\ last'.tag = "issued"
                  /\ \E r \in requests' \ requests : r.ray = last'.ray
             ELSE last'.tag = "noapi"]_vars

\* a probe was requested along an unprojected ray although the record has
\* the pinhole parameters: its lens pose is partial
C12_Witness ==
    /\ last.tag = "issued"
    /\ last.ray.path = "unproject"
    /\ cameraIntrinsics.present
    /\ cameraIntrinsics.cx = 0
    /\ cameraIntrinsics.lensRotation # cameraIntrinsics.lensTranslation

\* C13: a poll that gets one or more results places the marker at the pose
\* of the first result, and ends Idle: the handle is cancelled and released,
\* the recorded ray is cleared and the elapsed time is 0.
C13_FirstResultPlacesMarker ==
    last.tag \in {"hit", "hitnopose"} =>
        /\ reticle.visible
        /\ reticle.kind = "hit"
        /\ reticle.pose = last.first
        /\ activeHitSource = NoHandle
        /\ pendingRayRef = NoRay
        /\ timeSinceTap = 0

\* C14: a probe that times out places the marker by fallback along the ray
\* that was reconstructed for the sample of that same probe, and the
\* orchestrator is Idle afterwards.
C14_TimeoutUsesOwnRay ==
    [][last'.tag = "timeout" =>
          /\ reticle'.visible
          /\ reticle'.kind = "fallback"
          /\ reticle'.ray = pendingRayRef
          /\ reticle'.ray.sample = activeHitSource.sample
          /\ activeHitSource' = NoHandle
          /\ pendingRayRef' = NoRay
          /\ timeSinceTap' = 0]_vars

\* C15: on a tick where the designated controller has no pose the projector
\* changes nothing: panelHoverUv keeps its value, and pendingRayUv and
\* lastTapUv are not overwritten.
C15_LostTrackingSkipsTick ==
    [][last'.tag = "taplost" =>
          /\ panelHoverUv' = panelHoverUv
          /\ pendingRayUv' = pendingRayUv
          /\ lastTapUv' = lastTapUv]_vars

C17_TapOnPressEdgeOnly ==
    [][lastTapUv' # lastTapUv =>
          /\ ~trigger /\ trigger'
          /\ last'.tag = "tapclick"
          /\ lastTapUv' = panelHoverUv']_vars

\* C18: panelHoverUv becomes non-null, and pendingRayUv and lastTapUv are
\* written, only on a tick where the right-hand tracked pointer meets the
\* panel, and with that pointer's uv; on a tick whose only sources are a
\* left-hand or a gaze source the three slots and the trigger memory are as
\* on a tick with no source at all.
C18_OnlyRightPointerWrites ==
    [][/\ \/ panelHoverUv' # panelHoverUv /\ panelHoverUv' # NoUv
          \/ pendingRayUv' # pendingRayUv /\ pendingRayUv' # NoUv
          \/ lastTapUv' # lastTapUv
          => /\ last'.tag \in {"taphover", "tapclick"}
             /\ panelHoverUv'.u = last'.ray.u
             /\ panelHoverUv'.v = UvScale - last'.ray.v
             /\ pendingRayUv' = panelHoverUv'
             /\ lastTapUv' \in {lastTapUv, panelHoverUv'}
       /\ last'.tag = "tapnone" =>
             /\ panelHoverUv' = NoUv
             /\ pendingRayUv' = pendingRayUv
             /\ lastTapUv' = lastTapUv
             /\ prevPressed' = prevPressed]_vars

\* the right pointer clicked on the panel on a tick where the left-hand
\* source, trigger pressed, pointed at the panel too
C18_Witness ==
    /\ last.tag = "tapclick"
    /\ last.others
    /\ lastTapUv = panelHoverUv
    /\ panelHoverUv.v = 0

\* the letterbox fit of a source in a panel: width-constrained when the
\* source is wider than the panel, else height-constrained, bars centred
Letterbox(srcW, srcH, panelW, panelH) ==
    IF srcW * panelH > srcH * panelW
    THEN LET rh == (2 * panelW * srcH + srcW) \div (2 * srcW)
         IN  [renderW |-> panelW, renderH |-> rh,
              offsetX |-> 0, offsetY |-> (panelH - rh) \div 2]
    ELSE LET rw == (2 * panelH * srcW + srcH) \div (2 * srcH)
         IN  [renderW |-> rw, renderH |-> panelH,
              offsetX |-> (panelW - rw) \div 2, offsetY |-> 0]

\* C19: the published mapping carries the letterbox fit of the frame in the
\* panel: renderW, renderH, offsetX and offsetY are those of the fit, with
\* 0 < renderW <= panelW and 0 < renderH <= panelH (1920x1080 in 1280x1280
\* fits as 1280x720 at offset (0, 280)).
C19_MappingIsLetterboxFit ==
    /\ Letterbox(1920, 1080, 1280, 1280) =
          [renderW |-> 1280, renderH |-> 720, offsetX |-> 0, offsetY |-> 280]
    /\ cameraImageMapping # NoMapping =>
          LET mp == cameraImageMapping
              fit == Letterbox(mp.srcW, mp.srcH, mp.panelW, mp.panelH)
          IN  /\ mp.renderW = fit.renderW /\ mp.renderH = fit.renderH
              /\ mp.offsetX = fit.offsetX /\ mp.offsetY = fit.offsetY
              /\ 0 < mp.renderW /\ mp.renderW <= mp.panelW
              /\ 0 < mp.renderH /\ mp.renderH <= mp.panelH

\* the mapping of Scenario A
ScenarioA ==
    [srcW |-> 1920, srcH |-> 1080, panelW |-> 1280, panelH |-> 1280,
     renderW |-> 1280, renderH |-> 720, offsetX |-> 0, offsetY |-> 280]

\* C20: the image uv of every ray the orchestrator builds from a sample is
\* clamp((u * panelW - offsetX) / renderW, 0, 1) and the same for v: a
\* number between 0 and 1; with the mapping of Scenario A panel pixel
\* (640, 280) gives (0.5, 0.0).
C20_ImageUvIsClamped ==
    /\ PanelPixelToImage(640, 280, ScenarioA) = <<ImgScale \div 2, 0>>
    /\ last.ray.path \in {"intrinsics", "unproject", "camera"} =>
          /\ last.ray.imgU \in 0..ImgScale
          /\ last.ray.imgV \in 0..ImgScale

\* the rays the orchestrator holds: recorded, awaiting a request, on the marker
HeldRays == {pendingRayRef, reticle.ray} \cup { r.ray : r \in requests }

\* C21: the image uv of every ray built from a consumed sample is a number
\* in [0, 1] on both axes, never NaN; a panel pixel inside a letterbox bar
\* clamps to exactly 0 or 1 on the constrained axis.
C21_ImageUvInUnitSquare ==
    /\ PanelPixelToImage(640, 100, ScenarioA)[2] = 0
    /\ PanelPixelToImage(640, 1200, ScenarioA)[2] = ImgScale
    /\ \A ray \in HeldRays :
          /\ ray.imgU # NaN /\ ray.imgV # NaN
          /\ ray.imgU \in 0..ImgScale /\ ray.imgV \in 0..ImgScale


\* C22: a renderer tick with a panel and no new camera frame leaves the
\* panel's pixel content and the published mapping as they were.
C22_NoFrameKeepsPanel ==
    [][last'.tag = "panelnoframe" =>
          /\ canvas' = canvas
          /\ cameraImageMapping' = cameraImageMapping]_vars

\* a frame with its overlays is on the panel and the camera gives no frame
C22_Witness ==
    /\ last.tag = "panelnoframe"
    /\ canvas.drawn /\ canvas.hover
    /\ cameraImageMapping # NoMapping

\* C23: a renderer tick that cannot get the 2D context ends normally with no
\* panel, no mapping and nothing drawn; every renderer tick that can get the
\* context, after such a tick or not, has the panel when it ends.
C23_NoContextSkipsTick ==
    [][/\ last'.tag = "panelnoctx" =>
              /\ phase' = "tap"
              /\ ~panelMesh'
              /\ cameraImageMapping' = NoMapping
              /\ canvas' = BlankCanvas
       /\ last'.tag \in {"panelnoframe", "paneldrawn"} =>
              /\ phase' = "tap"
              /\ panelMesh']_vars

\* the context could not be obtained on this tick of a running session
C23_Witness ==
    /\ last.tag = "panelnoctx"
    /\ session # 0
    /\ phase = "tap"


\* the marker's pose and visibility
Marker(r) == [visible |-> r.visible, kind |-> r.kind, pose |-> r.pose, ray |-> r.ray]

\* C24: the marker's pose and visibility change only in an orchestrator step
\* that resolves the probe it holds (a hit result or a timeout, after which no
\* handle is held) or that takes an immediate-fallback branch (no viewer
\* pose, no hit-test API, request failed).
C24_MarkerChangesOnPlacementOnly ==
    [][Marker(reticle') # Marker(reticle) =>
          \/ /\ activeHitSource # NoHandle
             /\ last'.tag \in {"hit", "timeout"}
             /\ activeHitSource' = NoHandle
          \/ /\ last'.tag \in {"nopose", "noapi", "reqfail"}
             /\ reticle'.kind = "fallback"
             /\ reticle'.ray = last'.ray]_vars


\* C25: the direction of every ray the reconstructor produced on the
\* calibrated or the uncalibrated path, in room space and as sent with the
\* probe request in viewer space, has length 1.
C25_DirectionsAreUnit ==
    \A ray \in HeldRays :
        ray.path \in {"intrinsics", "unproject"} =>
            normalize(ray.imgU, ray.imgV) = Unit


\* the rays of the last step and of the orchestrator that were built from a
\* panel uv, and what reconstruction computed for one
BuiltRays ==
    { r \in HeldRays \cup {last.ray} : r.path \in {"intrinsics", "unproject", "camera"} }
Output(r) == <<r.path, r.imgU, r.imgV>>

Reembed(c, offset, render) ==
    IF c = NaN \/ offset = Undefined \/ render = Undefined
    THEN NaN
    ELSE offset + (c * render) \div ImgScale

\* |a - b| <= 2 panel pixels, for numbers
Near(a, b) == a # NaN /\ b # NaN /\ a - b <= 2 /\ b - a <= 2

\* C27: for every ray built from a sample (the panel shows the frame over its
\* whole area, so every panel uv is inside the image), re-embedding the image
\* uv with the published mapping gives back the sample's panel pixel; a pixel
\* inside the image of a letterboxed mapping comes back as well.
C27_ImageUvRoundTrip ==
    /\ LET img == PanelPixelToImage(640, 540, ScenarioA)
       IN  /\ Near(Reembed(img[1], ScenarioA.offsetX, ScenarioA.renderW), 640)
           /\ Near(Reembed(img[2], ScenarioA.offsetY, ScenarioA.renderH), 540)
    /\ \A ray \in BuiltRays :
          LET m == cameraImageMapping
          IN  /\ Near(Reembed(ray.imgU, m.offsetX, m.renderW),
                      (ray.u * m.panelW) \div UvScale)
              /\ Near(Reembed(ray.imgV, m.offsetY, m.renderH),
                      (ray.v * m.panelH) \div UvScale)


\* C28: a Probing tick with no results whose elapsed time is not beyond the
\* timeout adds the frame time to the elapsed counter and changes nothing
\* else of the orchestrator, the marker or pendingRayUv, and issues no
\* request; no update that starts with a handle held changes pendingRayUv or
\* takes the sample in it.
C28_WaitingTickOnlyCounts ==
    [][/\ last'.tag = "wait" /\ timeSinceTap' <= HIT_TIMEOUT =>
              /\ activeHitSource # NoHandle
              /\ timeSinceTap' > timeSinceTap
              /\ UNCHANGED <<activeHitSource, pendingRayRef, reticle, pendingRayUv,
                             requests, nextHandle, returned, cancelled, consumed,
                             placedFor>>
       /\ phase = "hit" /\ activeHitSource # NoHandle =>
              /\ pendingRayUv' = pendingRayUv
              /\ consumed' = consumed]_vars

\* a probe waits for its results, its ray recorded, while the next sample is
\* pending
C28_Witness ==
    /\ last.tag = "wait"
    /\ timeSinceTap <= HIT_TIMEOUT
    /\ pendingRayRef # NoRay
    /\ pendingRayUv # NoUv


\* C29: a Probing tick that has results when the elapsed time is beyond the
\* timeout places the marker at the first result's pose and resolves the
\* probe; it makes no fallback placement.
C29_HitWinsOverTimeout ==
    [][/\ phase = "hit"
       /\ activeHitSource # NoHandle
       /\ timeSinceTap >= HIT_TIMEOUT
       /\ last'.tag \in {"hit", "hitnopose"}
       => /\ reticle'.visible
          /\ reticle'.kind = "hit"
          /\ reticle'.pose = last'.first
          /\ activeHitSource' = NoHandle]_vars


\* the surface normal of a hit pose: its local +Y axis
SurfaceNormal(pose) == Apply(pose.rot, <<0, 1, 0>>)

\* C30: a marker placed from a hit result stands at the result's position plus
\* RETICLE_Z_OFFSET times the surface normal of the result's pose.
C30_MarkerOffsetAlongNormal ==
    reticle.kind = "hit" =>
        PlacedPosition(HitPose(reticle.pose)) =
            VAdd(HitPose(reticle.pose).pos,
                 VScale(RETICLE_Z_OFFSET, SurfaceNormal(HitPose(reticle.pose))))


\* C31: a marker placed from a hit result shows its face (the ring's local
\* +Z axis, turned by the marker's quaternion) along the surface normal of
\* the result's pose.
C31_FaceAlongSurfaceNormal ==
    reticle.kind = "hit" =>
        Apply(PlacedQuaternion(HitPose(reticle.pose)), <<0, 0, 1>>) =
            SurfaceNormal(HitPose(reticle.pose))

\* the marker stands on the wall result, whose normal is not the room's +Y
C31_Witness ==
    /\ reticle.visible
    /\ reticle.kind = "hit"
    /\ reticle.pose = 2
    /\ SurfaceNormal(HitPose(2)) = <<0, 0, 1>>


\* C32: the fallback marker shows its face (the ring's local +Z axis, the
\* third vector of its basis) against the direction of the ray it was placed
\* along, whatever that direction is.
C32_FallbackFacesTheRay ==
    reticle.kind = "fallback" =>
        \A dir \in RayDirections(reticle.ray) :
            /\ FallbackBasis(dir).z # NaNVec
            /\ FallbackBasis(dir).z = VScale(0 - 1, dir)


\* a direction turned by the inverse of a rotation: its components along the
\* rotated axes
TurnedBack(rot, d) ==
    IF d = NaNVec THEN NaNVec ELSE <<Dot(rot.x, d), Dot(rot.y, d), Dot(rot.z, d)>>

C34_HandleHasRecordedRay ==
    activeHitSource # NoHandle => pendingRayRef # NoRay


\* C35: at the end of every tick with no handle held the elapsed counter is
\* 0, and when a handle becomes active the counter is 0: a probe's elapsed
\* time never starts from what another probe left.
C35_ElapsedStartsAtZero ==
    [][/\ phase' = "between" /\ activeHitSource' = NoHandle => timeSinceTap' = 0
       /\ last'.tag = "resolved" => timeSinceTap' = 0]_vars


\* C36: an update called on a tick without a session, without an XR frame or
\* before the XR spaces are there, up to its end (its continuation when the
\* spaces promise settles included), consumes no sample, does not advance
\* the elapsed counter and leaves the handle, the recorded ray and the
\* marker's pose as they were.
C36_UnavailableTickChangesNothing ==
    [][\/ /\ phase = "hit" /\ phase' = "between"
          /\ session = 0 \/ ~xrFrame \/ spacesPromise # "resolved"
       \/ spacesPromise = "pending" /\ spacesPromise' # "pending"
       => /\ UNCHANGED <<pendingRayUv, consumed, timeSinceTap, activeHitSource,
                         pendingRayRef>>
          /\ Marker(reticle') = Marker(reticle)]_vars


\* C37: a tick on which the right controller is tracked and its ray misses
\* the panel leaves pendingRayUv and lastTapUv as they were and sets
\* panelHoverUv to null: a sample written earlier and not read yet stays
\* pending.
C37_MissKeepsPendingSample ==
    [][last'.tag = "tapmiss" =>
          /\ pendingRayUv' = pendingRayUv
          /\ lastTapUv' = lastTapUv
          /\ panelHoverUv' = NoUv]_vars

\* the pointer has left the panel with a tap shown and a sample still unread
C37_Witness ==
    /\ last.tag = "tapmiss"
    /\ panelHoverUv = NoUv
    /\ pendingRayUv # NoUv
    /\ lastTapUv # NoUv


\* C38: the marker is hidden as long as nothing has placed it, becomes
\* visible only by a hit or a fallback placement, and no step of any
\* component hides a visible marker.
C38_MarkerStaysVisible ==
    [][/\ reticle'.kind = "none" => ~reticle'.visible
       /\ ~reticle.visible /\ reticle'.visible => reticle'.kind \in {"hit", "fallback"}
       /\ reticle.visible => reticle'.visible]_vars

\* the marker is still shown on a tick on which the controller lost tracking
C38_Witness ==
    /\ last.tag = "taplost"
    /\ reticle.visible
    /\ panelHoverUv = NoUv


\* C39: an update that goes on with the spaces ensureSpaces returned works in
\* the session those spaces were requested from.
C39_SpacesOfCurrentSession ==
    [][/\ phase = "hit" /\ phase' = "between"
       /\ session # 0 /\ spacesPromise = "resolved"
       => spacesSession = session]_vars

====
